---- MODULE Spec2Model ----
(***************************************************************************)
(* Model of scripts/expo-upload-sourcemaps.js: the script that walks an    *)
(* Expo export directory, groups bundles / bytecode files with their       *)
(* sourcemaps, stages one renamed copy of a group per EAS update record in *)
(* <root>/.tmp and calls sentry-cli once per staged group.                 *)
(*                                                                         *)
(* Paths, file names and command lines are TLA+ strings, handled character *)
(* by character the way the JavaScript does (endsWith, includes,           *)
(* path.parse, path.join, template literals).                              *)
(***************************************************************************)
EXTENDS Integers, Sequences, FiniteSets, TLC

VARIABLES
    pc,                    \* position of the script's top-level code
    error,                 \* why the process ended early ("" while it has not)
    envProject,            \* process.env.SENTRY_PROJECT
    envAuthToken,          \* process.env.SENTRY_AUTH_TOKEN
    expoConfig,            \* what `npx expo config --json` answers
    argvDir,               \* process.argv[2]
    sentryProject,         \* let sentryProject
    disk,                  \* the file system: path of a file -> its content
    dirs,                  \* the file system: the directories
    manifestUpdates,       \* the "updates" array written in eas-update-metadata.json
    files,                 \* const files
    groupedAssets,         \* const groupedAssets (entries in insertion order)
    updates,               \* const updates
    nextUpdate,            \* index of the record the correlation loop is at
    runtimesByAssetGroup,  \* const runtimesByAssetGroup
    tmpFiles,              \* const tmpFiles
    groupedTmpAssets,      \* const groupedTmpAssets
    nextGroup,             \* index of the entry the upload loop is at
    uploads,               \* the sentry-cli invocations made so far
    warnings,              \* 'Could not find code assets' lines printed
    successPrinted,        \* the final console.log has run
    fsMutated,             \* history: a delete, mkdir or copy was attempted
    stagedBy,              \* history: scratch path -> indices of the records copied to it
    stagedCount            \* history: records whose group was copied completely

vars == <<pc, error, envProject, envAuthToken, expoConfig, argvDir, sentryProject,
          disk, dirs, manifestUpdates, files, groupedAssets, updates, nextUpdate,
          runtimesByAssetGroup, tmpFiles, groupedTmpAssets, nextGroup, uploads, warnings,
          successPrinted, fsMutated, stagedBy, stagedCount>>

(***************************************************************************)
(* Program constants.                                                      *)
(***************************************************************************)
SENTRY_CLI == "node_modules/@sentry/cli/bin/sentry-cli"
TMP_DIR == ".tmp"
MANIFEST_NAME == "eas-update-metadata.json"
SENTRY_PLUGIN == "@sentry/react-native"

\* JavaScript's undefined; a template literal renders it as these nine letters.
Undefined == "undefined"
Falsy(x) == x = Undefined \/ x = ""

(***************************************************************************)
(* Bounds of the model.                                                    *)
(***************************************************************************)
MaxFiles == 3       \* artifact files in the export directory
MaxUpdates == 2     \* update records in the manifest
MaxStale == 1       \* files left in <root>/.tmp by an earlier run

(***************************************************************************)
(* Strings.                                                                *)
(***************************************************************************)
CharAt(s, i) == SubSeq(s, i, i)

\* String.prototype.endsWith
endsWith(s, suffix) ==
    /\ Len(s) >= Len(suffix)
    /\ SubSeq(s, Len(s) - Len(suffix) + 1, Len(s)) = suffix

\* String.prototype.includes
includes(s, part) ==
    \E i \in 1..(Len(s) - Len(part) + 1) : SubSeq(s, i, i + Len(part) - 1) = part

\* String.prototype.lastIndexOf for one character, 1-based, 0 when absent
LastIndexOf(s, c) ==
    LET hits == {i \in 1..Len(s) : CharAt(s, i) = c}
    IN  IF hits = {} THEN 0 ELSE CHOOSE i \in hits : \A j \in hits : j <= i

\* String.prototype.indexOf for one character, 1-based, 0 when absent
IndexOf(s, c) ==
    LET hits == {i \in 1..Len(s) : CharAt(s, i) = c}
    IN  IF hits = {} THEN 0 ELSE CHOOSE i \in hits : \A j \in hits : i <= j

\* Array.prototype.join
RECURSIVE JoinWith(_, _)
JoinWith(seq, sep) ==
    IF seq = <<>> THEN ""
    ELSE IF Len(seq) = 1 THEN seq[1]
    ELSE seq[1] \o sep \o JoinWith(Tail(seq), sep)

(***************************************************************************)
(* node:path (posix), for paths that do not end in a slash.                *)
(***************************************************************************)
RECURSIVE Split(_)
Split(s) ==
    LET k == IndexOf(s, "/")
    IN  IF k = 0 THEN <<s>>
        ELSE <<SubSeq(s, 1, k - 1)>> \o Split(SubSeq(s, k + 1, Len(s)))

RECURSIVE NormalizeSegments(_, _, _)
NormalizeSegments(segs, acc, absolute) ==
    IF segs = <<>> THEN acc
    ELSE LET seg == Head(segs)
             rest == Tail(segs)
         IN  IF seg = "" \/ seg = "."
                THEN NormalizeSegments(rest, acc, absolute)
             ELSE IF seg = ".."
                THEN IF acc # <<>> /\ acc[Len(acc)] # ".."
                        THEN NormalizeSegments(rest, SubSeq(acc, 1, Len(acc) - 1), absolute)
                     ELSE IF absolute
                        THEN NormalizeSegments(rest, acc, absolute)
                     ELSE NormalizeSegments(rest, Append(acc, seg), absolute)
             ELSE NormalizeSegments(rest, Append(acc, seg), absolute)

\* path.normalize
Normalize(p) ==
    IF p = "" THEN "."
    ELSE LET absolute == CharAt(p, 1) = "/"
             trailing == CharAt(p, Len(p)) = "/"
             body     == JoinWith(NormalizeSegments(Split(p), <<>>, absolute), "/")
         IN  IF body = ""
                THEN IF absolute THEN "/" ELSE IF trailing THEN "./" ELSE "."
             ELSE (IF absolute THEN "/" ELSE "") \o body \o (IF trailing THEN "/" ELSE "")

\* path.join(a, b)
PathJoin(a, b) ==
    IF a = "" /\ b = "" THEN "."
    ELSE IF a = "" THEN Normalize(b)
    ELSE IF b = "" THEN Normalize(a)
    ELSE Normalize(a \o "/" \o b)

\* path.parse(p).base
PathBase(p) == SubSeq(p, LastIndexOf(p, "/") + 1, Len(p))

\* path.parse(p).root
PathRoot(p) == IF p # "" /\ CharAt(p, 1) = "/" THEN "/" ELSE ""

\* path.parse(p).dir
PathDir(p) ==
    LET k == LastIndexOf(p, "/")
    IN  IF k = 0 THEN "" ELSE IF k = 1 THEN "/" ELSE SubSeq(p, 1, k - 1)

\* path.parse(p).ext and path.extname(p): from the last dot of the base name,
\* unless that dot is the base name's first character or the base name is "..".
PathExt(p) ==
    LET base == PathBase(p)
        k    == LastIndexOf(base, ".")
    IN  IF k = 0 \/ k = 1 \/ base = ".." THEN "" ELSE SubSeq(base, k, Len(base))

\* path.parse(p).name
PathName(p) ==
    LET base == PathBase(p)
    IN  SubSeq(base, 1, Len(base) - Len(PathExt(p)))

\* path.format(path.parse(p))
PathFormatParsed(p) ==
    LET dir == IF PathDir(p) # "" THEN PathDir(p) ELSE PathRoot(p)
    IN  IF dir = "" THEN PathBase(p)
        ELSE IF dir = PathRoot(p) THEN dir \o PathBase(p)
        ELSE dir \o "/" \o PathBase(p)

(***************************************************************************)
(* Asset classifier, walker and grouper.                                   *)
(***************************************************************************)
isAsset(filename) ==
    endsWith(filename, ".map") \/ endsWith(filename, ".js") \/ endsWith(filename, ".hbc")

\* Names of the entries of a directory
ChildNames(F, D, directory) ==
    {PathBase(p) : p \in {q \in F \cup D : q # directory /\ PathDir(q) = directory}}

\* Character codes of the characters file names are made of, in ASCII order
CharCodes == "-./0123456789@ABCDEFGHIJKLMNOPQRSTUVWXYZ_abcdefghijklmnopqrstuvwxyz"
CharCode(c) == IndexOf(CharCodes, c)

\* strcmp(a, b) < 0
StrLess(a, b) ==
    LET n     == IF Len(a) < Len(b) THEN Len(a) ELSE Len(b)
        diffs == {i \in 1..n : CharAt(a, i) # CharAt(b, i)}
    IN  IF diffs = {} THEN Len(a) < Len(b)
        ELSE LET i == CHOOSE d \in diffs : \A e \in diffs : d <= e
             IN  CharCode(CharAt(a, i)) < CharCode(CharAt(b, i))

\* fs.readdirSync(directory): the entries' names. Node lists a directory with
\* libuv's scandir, which hands the names back sorted by strcmp.
RECURSIVE SortNames(_)
SortNames(names) ==
    IF names = {} THEN <<>>
    ELSE LET first == CHOOSE n \in names : \A m \in names \ {n} : StrLess(n, m)
         IN  <<first>> \o SortNames(names \ {first})

readdirSync(F, D, directory) == SortNames(ChildNames(F, D, Normalize(directory)))

\* getAssetPathsSync(directory) on the file system with files F and directories D
RECURSIVE getAssetPathsSync(_, _, _)
getAssetPathsSync(F, D, directory) ==
    LET RECURSIVE Visit(_)
        Visit(items) ==
            IF items = <<>> THEN <<>>
            ELSE LET fullPath == PathJoin(directory, Head(items))
                     here == IF fullPath \in D
                                THEN getAssetPathsSync(F, D, fullPath)
                             ELSE IF fullPath \in F /\ isAsset(Head(items))
                                THEN <<fullPath>>
                             ELSE <<>>
                 IN  here \o Visit(Tail(items))
    IN  Visit(readdirSync(F, D, directory))

\* assetGroupNameOf with the extension taken off every path, not only off sourcemaps
assetGroupNameOf_DropsExtension(assetPath) ==
    PathJoin(PathDir(assetPath), PathName(assetPath))

\* The group key groupAssets gives a path
assetGroupNameOf(assetPath) ==
    IF PathExt(assetPath) = ".map"
        THEN PathJoin(PathDir(assetPath), PathName(assetPath))
        ELSE PathFormatParsed(assetPath)

\* An object with string keys is a sequence of [name, assets] entries in
\* insertion order (the order of Object.keys and Object.entries).
HasKey(groups, name) == \E i \in 1..Len(groups) : groups[i].name = name
KeyIndex(groups, name) == CHOOSE i \in 1..Len(groups) : groups[i].name = name

RECURSIVE groupAssetsInto(_, _)
groupAssetsInto(assetPaths, groups) ==
    IF assetPaths = <<>> THEN groups
    ELSE LET assetPath == Head(assetPaths)
             assetGroupName == assetGroupNameOf(assetPath)
         IN  IF ~HasKey(groups, assetGroupName)
                THEN groupAssetsInto(Tail(assetPaths),
                        Append(groups, [name |-> assetGroupName, assets |-> <<assetPath>>]))
             ELSE LET i == KeyIndex(groups, assetGroupName)
                  IN  groupAssetsInto(Tail(assetPaths),
                        [groups EXCEPT ![i].assets = Append(@, assetPath)])

groupAssets(assetPaths) == groupAssetsInto(assetPaths, <<>>)

(***************************************************************************)
(* Inputs: the environment, the expo configuration, the export directory   *)
(* and the manifest the script is started with.                            *)
(***************************************************************************)
Plugin(isArray, length, name, configTruthy, project) ==
    [isArray |-> isArray, length |-> length, name |-> name,
     configTruthy |-> configTruthy, project |-> project]

ExpoConfig(ok, hasPlugins, plugins) ==
    [ok |-> ok, hasPlugins |-> hasPlugins, plugins |-> plugins]

OtherPlugin == Plugin(TRUE, 2, "expo-router", TRUE, Undefined)

ExpoConfigs ==
    { ExpoConfig(FALSE, FALSE, <<>>),                  \* the command fails or prints no JSON
      ExpoConfig(TRUE, FALSE, <<>>),                   \* no "plugins"
      ExpoConfig(TRUE, TRUE, <<OtherPlugin>>),         \* plugins, not this one
      ExpoConfig(TRUE, TRUE, <<Plugin(FALSE, 0, SENTRY_PLUGIN, FALSE, Undefined)>>),
                                                       \* "@sentry/react-native" as a bare string
      ExpoConfig(TRUE, TRUE, <<Plugin(TRUE, 1, SENTRY_PLUGIN, FALSE, Undefined)>>),
                                                       \* ["@sentry/react-native"]
      ExpoConfig(TRUE, TRUE, <<Plugin(TRUE, 2, SENTRY_PLUGIN, FALSE, Undefined)>>),
                                                       \* ["@sentry/react-native", null]
      ExpoConfig(TRUE, TRUE, <<Plugin(TRUE, 2, SENTRY_PLUGIN, TRUE, Undefined)>>),
                                                       \* [.., { organization: "org" }]
      ExpoConfig(TRUE, TRUE, <<OtherPlugin, Plugin(TRUE, 2, SENTRY_PLUGIN, TRUE, "expo-project")>>)
                                                       \* [.., { project: "expo-project" }]
    }

EnvProjects == {Undefined, "env-project"}
EnvAuthTokens == {Undefined, "token"}
ArgvDirs == {Undefined, "dist", "./dist"}

\* Artifact files an export can hold
SourcePool ==
    { "dist/android/index.hbc", "dist/android/index.hbc.map",
      "dist/ios/index.js", "dist/ios/index.js.map",
      "dist/ios/index.hbc", "dist/index.android.bundle.map" }

\* A file of the export that is no artifact
OtherFile == "dist/metadata.json"

\* Files an earlier run can have left in the scratch directory
StalePool == { "dist/.tmp/android-update-id-u1.hbc", "dist/.tmp/ios-update-id-u9.js.map" }

ManifestPath == "dist/eas-update-metadata.json"

\* What the manifest file can hold
ManifestKinds == {"missing", "garbage", "json"}

UpdateRecord(id, platform, runtimeVersion) ==
    [id |-> id, platform |-> platform, runtimeVersion |-> runtimeVersion]

RecordPool ==
    { UpdateRecord("u1", "android", "1.2.0"),
      UpdateRecord("u2", "android", "1.3.0"),
      UpdateRecord("u3", "ios", "1.2.0"),
      UpdateRecord("u1", "ios", "2.0.0") }

\* Manifests: up to MaxUpdates records with pairwise distinct ids
RECURSIVE SeqsUpTo(_, _)
SeqsUpTo(S, n) ==
    IF n = 0 THEN {<<>>}
    ELSE LET shorter == SeqsUpTo(S, n - 1)
         IN  shorter \cup {Append(q, x) : q \in {r \in shorter : Len(r) = n - 1}, x \in S}

Manifests ==
    {m \in SeqsUpTo(RecordPool, MaxUpdates) :
        \A i, j \in 1..Len(m) : i # j => m[i].id # m[j].id}

StaleContent(path) == "stale:" \o path
IsStaleContent(content) == SubSeq(content, 1, 6) = "stale:"

\* The directories that hold the given files
RECURSIVE Ancestors(_)
Ancestors(p) == IF PathDir(p) = "" THEN {} ELSE {PathDir(p)} \cup Ancestors(PathDir(p))

InitialFiles(src, stale, manifestKind) ==
    LET plain == src \cup {OtherFile}
        all   == plain \cup stale
                  \cup (IF manifestKind = "missing" THEN {} ELSE {ManifestPath})
    IN  [p \in all |->
            IF p \in stale THEN StaleContent(p)
            ELSE IF p = ManifestPath THEN manifestKind
            ELSE p]

BaseSource == {"dist/android/index.hbc", "dist/android/index.hbc.map"}
BaseStale == {"dist/.tmp/android-update-id-u1.hbc"}
BaseManifest == <<UpdateRecord("u1", "android", "1.2.0")>>

InitRest ==
    /\ pc = "resolveProject"
    /\ error = ""
    /\ sentryProject = envProject
    /\ dirs = {"dist"} \cup UNION {Ancestors(p) : p \in DOMAIN disk}
    /\ files = <<>>
    /\ groupedAssets = <<>>
    /\ updates = <<>>
    /\ nextUpdate = 1
    /\ runtimesByAssetGroup = <<>>
    /\ tmpFiles = <<>>
    /\ groupedTmpAssets = <<>>
    /\ nextGroup = 1
    /\ uploads = <<>>
    /\ warnings = 0
    /\ successPrinted = FALSE
    /\ fsMutated = FALSE
    /\ stagedBy = <<>>
    /\ stagedCount = 0

\* Every configuration, on one export
InitConfigurations ==
    /\ envProject \in EnvProjects
    /\ envAuthToken \in EnvAuthTokens
    /\ expoConfig \in ExpoConfigs
    /\ argvDir \in ArgvDirs
    /\ manifestUpdates = BaseManifest
    /\ disk = InitialFiles(BaseSource, BaseStale, "json")

\* Every export and manifest, under one complete configuration
InitExports ==
    /\ envProject = "env-project"
    /\ envAuthToken = "token"
    /\ expoConfig = ExpoConfig(TRUE, FALSE, <<>>)
    /\ argvDir = "dist"
    /\ \E src \in {S \in SUBSET SourcePool : Cardinality(S) <= MaxFiles},
          stale \in {S \in SUBSET StalePool : Cardinality(S) <= MaxStale},
          kind \in ManifestKinds :
            /\ manifestUpdates \in (IF kind = "json" THEN Manifests ELSE {<<>>})
            /\ disk = InitialFiles(src, stale, kind)

Init == (InitConfigurations \/ InitExports) /\ InitRest

(***************************************************************************)
(* The script, top to bottom.                                              *)
(***************************************************************************)
Exit(reason) ==
    /\ pc' = "exited"
    /\ error' = reason

\* plugins.find(...) and the destructuring after it: the plugin's second element
SentryPluginIndex(plugins) ==
    LET hits == {i \in 1..Len(plugins) :
                    /\ plugins[i].isArray
                    /\ plugins[i].length >= 2
                    /\ plugins[i].name = SENTRY_PLUGIN}
    IN  IF hits = {} THEN 0 ELSE CHOOSE i \in hits : \A j \in hits : i <= j

\* getSentryPluginPropertiesFromExpoConfig() returned something truthy
HasPluginConfig(config) ==
    /\ config.ok
    /\ config.hasPlugins
    /\ SentryPluginIndex(config.plugins) # 0
    /\ config.plugins[SentryPluginIndex(config.plugins)].configTruthy

PluginProject(config) == config.plugins[SentryPluginIndex(config.plugins)].project

\* if (!sentryProject) { ... }
ResolveProject ==
    /\ pc = "resolveProject"
    /\ IF ~Falsy(sentryProject)
          THEN /\ pc' = "checkAuthToken"
               /\ UNCHANGED <<error, sentryProject>>
       ELSE IF ~HasPluginConfig(expoConfig)
          THEN /\ Exit("NoPluginConfig")
               /\ UNCHANGED sentryProject
       ELSE /\ sentryProject' = PluginProject(expoConfig)
            /\ pc' = "checkAuthToken"
            /\ UNCHANGED error
    /\ UNCHANGED <<envProject, envAuthToken, expoConfig, argvDir, disk, dirs,
                   manifestUpdates, files, groupedAssets, updates, nextUpdate,
                   runtimesByAssetGroup, tmpFiles, groupedTmpAssets, nextGroup, uploads, warnings,
                   successPrinted, fsMutated, stagedBy, stagedCount>>

\* if (!authToken) { ... }
CheckAuthToken ==
    /\ pc = "checkAuthToken"
    /\ IF Falsy(envAuthToken)
          THEN Exit("NoAuthToken")
          ELSE pc' = "checkOutputDir" /\ UNCHANGED error
    /\ UNCHANGED <<envProject, envAuthToken, expoConfig, argvDir, sentryProject, disk, dirs,
                   manifestUpdates, files, groupedAssets, updates, nextUpdate,
                   runtimesByAssetGroup, tmpFiles, groupedTmpAssets, nextGroup, uploads, warnings,
                   successPrinted, fsMutated, stagedBy, stagedCount>>

\* if (!outputDir) { ... }
CheckOutputDir ==
    /\ pc = "checkOutputDir"
    /\ IF Falsy(argvDir)
          THEN Exit("NoOutputDir")
          ELSE pc' = "deleteTmp" /\ UNCHANGED error
    /\ UNCHANGED <<envProject, envAuthToken, expoConfig, argvDir, sentryProject, disk, dirs,
                   manifestUpdates, files, groupedAssets, updates, nextUpdate,
                   runtimesByAssetGroup, tmpFiles, groupedTmpAssets, nextGroup, uploads, warnings,
                   successPrinted, fsMutated, stagedBy, stagedCount>>

\* p is the directory or lies in it
Under(p, directory) ==
    \/ p = directory
    \/ /\ Len(p) > Len(directory)
       /\ SubSeq(p, 1, Len(directory) + 1) = directory \o "/"

\* deleteTmpDirectory(outputDir): rmSync removes the tree; when it throws, some
\* of the tree is still there and the error is only logged.
deleteTmpDirectory(parentFilePathForTmpDir) ==
    LET tmpPath == PathJoin(parentFilePathForTmpDir, TMP_DIR)
        doomed  == {p \in DOMAIN disk : Under(p, tmpPath)}
    IN  \/ /\ disk' = [p \in DOMAIN disk \ doomed |-> disk[p]]
           /\ dirs' = {d \in dirs : ~Under(d, tmpPath)}
        \/ /\ tmpPath \in dirs
           /\ \E kept \in SUBSET doomed :
                disk' = [p \in (DOMAIN disk \ doomed) \cup kept |-> disk[p]]
           /\ UNCHANGED dirs

DeleteTmp ==
    /\ pc = "deleteTmp"
    /\ deleteTmpDirectory(argvDir)
    /\ fsMutated' = TRUE
    /\ pc' = "walkSource"
    /\ UNCHANGED <<error, envProject, envAuthToken, expoConfig, argvDir, sentryProject,
                   manifestUpdates, files, groupedAssets, updates, nextUpdate,
                   runtimesByAssetGroup, tmpFiles, groupedTmpAssets, nextGroup, uploads, warnings,
                   successPrinted, stagedBy, stagedCount>>

\* const files = getAssetPathsSync(outputDir); const groupedAssets = groupAssets(files)
WalkSource ==
    /\ pc = "walkSource"
    /\ files' = getAssetPathsSync(DOMAIN disk, dirs, argvDir)
    /\ groupedAssets' = groupAssets(files')
    /\ pc' = "readManifest"
    /\ UNCHANGED <<error, envProject, envAuthToken, expoConfig, argvDir, sentryProject,
                   disk, dirs, manifestUpdates, updates, nextUpdate,
                   runtimesByAssetGroup, tmpFiles, groupedTmpAssets, nextGroup, uploads, warnings,
                   successPrinted, fsMutated, stagedBy, stagedCount>>

\* readAndPrintJSONFile(path.join(outputDir, 'eas-update-metadata.json')) and .updates
ReadManifest ==
    /\ pc = "readManifest"
    /\ LET filePath == PathJoin(argvDir, MANIFEST_NAME)
       IN  IF filePath \notin DOMAIN disk
              THEN Exit("ManifestMissing") /\ UNCHANGED updates
           ELSE IF disk[filePath] # "json"
              THEN Exit("ManifestMalformed") /\ UNCHANGED updates
           ELSE /\ updates' = manifestUpdates
                /\ pc' = "correlate"
                /\ UNCHANGED error
    /\ UNCHANGED <<envProject, envAuthToken, expoConfig, argvDir, sentryProject,
                   disk, dirs, manifestUpdates, files, groupedAssets, nextUpdate,
                   runtimesByAssetGroup, tmpFiles, groupedTmpAssets, nextGroup, uploads, warnings,
                   successPrinted, fsMutated, stagedBy, stagedCount>>

\* Object.keys(groupedAssets).find(key => key.includes(platform)): 0 when none
FindGroupIndex(groups, platform) ==
    LET hits == {i \in 1..Len(groups) : includes(groups[i].name, platform)}
    IN  IF hits = {} THEN 0 ELSE CHOOSE i \in hits : \A j \in hits : i <= j

\* The new name without the matched key's extension
newAssetGroupNameOf_NoExt(update, assetGroupName) ==
    update.platform \o "-update-id-" \o update.id

\* The new name without the update's id
newAssetGroupNameOf_NoId(update, assetGroupName) ==
    update.platform \o "-update" \o PathExt(assetGroupName)

\* `${platform}-update-id-${updateId}${ext}`
newAssetGroupNameOf(update, assetGroupName) ==
    update.platform \o "-update-id-" \o update.id \o PathExt(assetGroupName)

\* Where copyFilesToTmpDirectory puts one file
newFilePathOf(tmpDirPath, filePath, newFileName) ==
    IF PathExt(filePath) = ".map"
        THEN PathJoin(tmpDirPath, newFileName \o PathExt(filePath))
        ELSE PathJoin(tmpDirPath, newFileName)

\* fs.cpSync(src, dest) on the file table fs
CpSync(fs, src, dest) ==
    [p \in DOMAIN fs \cup {dest} |-> IF p = dest THEN fs[src] ELSE fs[p]]

\* fs.cpSync refuses to copy a file onto itself or from a path that is not there
CpSyncThrows(fs, src, dest) == src = dest \/ src \notin DOMAIN fs

RECURSIVE CopyEach(_, _, _, _)
CopyEach(fs, tmpDirPath, filePaths, newFileName) ==
    IF filePaths = <<>> THEN fs
    ELSE CopyEach(CpSync(fs, Head(filePaths),
                         newFilePathOf(tmpDirPath, Head(filePaths), newFileName)),
                  tmpDirPath, Tail(filePaths), newFileName)

\* copyFilesToTmpDirectory: the first n copies are made; with n short of the
\* group the next cpSync throws (it must when source and target are one file).
copyFilesToTmpDirectory(parentFilePathForTmpDir, filePaths, newFileName, n) ==
    LET tmpDirPath == PathJoin(parentFilePathForTmpDir, TMP_DIR)
        done       == SubSeq(filePaths, 1, n)
    IN  /\ \A k \in 1..n :
              ~CpSyncThrows(disk, filePaths[k],
                            newFilePathOf(tmpDirPath, filePaths[k], newFileName))
        /\ dirs' = dirs \cup {tmpDirPath}
        /\ disk' = CopyEach(disk, tmpDirPath, done, newFileName)
        /\ stagedBy' =
              LET targets == {newFilePathOf(tmpDirPath, done[k], newFileName) : k \in 1..n}
              IN  [p \in DOMAIN stagedBy \cup targets |->
                      (IF p \in DOMAIN stagedBy THEN stagedBy[p] ELSE {})
                      \cup (IF p \in targets THEN {nextUpdate} ELSE {})]

\* One turn of `for (const update of updates)`
Correlate ==
    /\ pc = "correlate"
    /\ nextUpdate <= Len(updates)
    /\ LET update == updates[nextUpdate]
           found  == FindGroupIndex(groupedAssets, update.platform)
       IN  IF found = 0
              THEN /\ warnings' = warnings + 1
                   /\ nextUpdate' = nextUpdate + 1
                   /\ UNCHANGED <<pc, error, disk, dirs, runtimesByAssetGroup, fsMutated,
                                  stagedBy, stagedCount>>
           ELSE LET assetGroupName    == groupedAssets[found].name
                    newAssetGroupName == newAssetGroupNameOf(update, assetGroupName)
                    filePaths         == groupedAssets[found].assets
                IN  /\ runtimesByAssetGroup' =
                          [k \in DOMAIN runtimesByAssetGroup \cup {newAssetGroupName} |->
                              IF k = newAssetGroupName THEN update.runtimeVersion
                              ELSE runtimesByAssetGroup[k]]
                    /\ fsMutated' = TRUE
                    /\ \E n \in 0..Len(filePaths) :
                          /\ copyFilesToTmpDirectory(argvDir, filePaths, newAssetGroupName, n)
                          /\ IF n = Len(filePaths)
                                THEN /\ nextUpdate' = nextUpdate + 1
                                     /\ stagedCount' = stagedCount + 1
                                     /\ UNCHANGED <<pc, error>>
                                ELSE /\ Exit("CopyFailed")
                                     /\ UNCHANGED <<nextUpdate, stagedCount>>
                    /\ UNCHANGED warnings
    /\ UNCHANGED <<envProject, envAuthToken, expoConfig, argvDir, sentryProject,
                   manifestUpdates, files, groupedAssets, updates, tmpFiles, groupedTmpAssets, nextGroup,
                   uploads, successPrinted>>

\* const tmpFiles = getAssetPathsSync(path.join(outputDir, TMP_DIR)) and its grouping;
\* readdirSync throws when the directory is not there.
WalkTmp ==
    /\ pc = "correlate"
    /\ nextUpdate > Len(updates)
    /\ LET tmpPath == PathJoin(argvDir, TMP_DIR)
       IN  IF tmpPath \notin dirs
              THEN Exit("NoTmpDirectory") /\ UNCHANGED <<tmpFiles, groupedTmpAssets>>
           ELSE /\ tmpFiles' = getAssetPathsSync(DOMAIN disk, dirs, tmpPath)
                /\ groupedTmpAssets' = groupAssets(tmpFiles')
                /\ pc' = "upload"
                /\ UNCHANGED error
    /\ UNCHANGED <<envProject, envAuthToken, expoConfig, argvDir, sentryProject,
                   disk, dirs, manifestUpdates, files, groupedAssets, updates, nextUpdate,
                   runtimesByAssetGroup, nextGroup, uploads, warnings,
                   successPrinted, fsMutated, stagedBy, stagedCount>>

\* runtimesByAssetGroup[assetGroupName]
RuntimeOf(runtimes, assetGroupName) ==
    IF assetGroupName \in DOMAIN runtimes THEN runtimes[assetGroupName] ELSE Undefined

\* assets.find(asset => asset.endsWith('.hbc')) is truthy
IsHermes(assets) == \E i \in 1..Len(assets) : endsWith(assets[i], ".hbc")

\* The command line handed to execSync
UploadCommand(runtime, isHermes, assets) ==
    SENTRY_CLI \o " sourcemaps upload --release " \o runtime \o " "
        \o (IF isHermes THEN "--debug-id-reference" ELSE "") \o " "
        \o JoinWith(assets, " ")

\* The upload loop with the failure of an invocation caught and the loop going on
Upload_KeepsGoing ==
    /\ pc = "upload"
    /\ nextGroup <= Len(groupedTmpAssets)
    /\ LET assetGroupName == groupedTmpAssets[nextGroup].name
           assets         == groupedTmpAssets[nextGroup].assets
           isHermes       == IsHermes(assets)
           runtime        == RuntimeOf(runtimesByAssetGroup, assetGroupName)
       IN  \E status \in {0, 1} :
              /\ uploads' = Append(uploads,
                    [groupName        |-> assetGroupName,
                     release          |-> runtime,
                     debugIdReference |-> isHermes,
                     targets          |-> assets,
                     contents         |-> [i \in 1..Len(assets) |-> disk[assets[i]]],
                     project          |-> sentryProject,
                     command          |-> UploadCommand(runtime, isHermes, assets),
                     status           |-> status])
              /\ nextGroup' = nextGroup + 1
              /\ UNCHANGED <<pc, error>>
    /\ UNCHANGED <<envProject, envAuthToken, expoConfig, argvDir, sentryProject,
                   disk, dirs, manifestUpdates, files, groupedAssets, updates, nextUpdate,
                   runtimesByAssetGroup, tmpFiles, groupedTmpAssets, warnings,
                   successPrinted, fsMutated, stagedBy, stagedCount>>

\* The upload loop passing only the group's first file to sentry-cli
Upload_FirstAssetOnly ==
    /\ pc = "upload"
    /\ nextGroup <= Len(groupedTmpAssets)
    /\ LET assetGroupName == groupedTmpAssets[nextGroup].name
           assets         == SubSeq(groupedTmpAssets[nextGroup].assets, 1, 1)
           isHermes       == IsHermes(assets)
           runtime        == RuntimeOf(runtimesByAssetGroup, assetGroupName)
       IN  \E status \in {0, 1} :
              /\ uploads' = Append(uploads,
                    [groupName        |-> assetGroupName,
                     release          |-> runtime,
                     debugIdReference |-> isHermes,
                     targets          |-> assets,
                     contents         |-> [i \in 1..Len(assets) |-> disk[assets[i]]],
                     project          |-> sentryProject,
                     command          |-> UploadCommand(runtime, isHermes, assets),
                     status           |-> status])
              /\ IF status = 0
                    THEN nextGroup' = nextGroup + 1 /\ UNCHANGED <<pc, error>>
                    ELSE Exit("UploadFailed") /\ UNCHANGED nextGroup
    /\ UNCHANGED <<envProject, envAuthToken, expoConfig, argvDir, sentryProject,
                   disk, dirs, manifestUpdates, files, groupedAssets, updates, nextUpdate,
                   runtimesByAssetGroup, tmpFiles, groupedTmpAssets, warnings,
                   successPrinted, fsMutated, stagedBy, stagedCount>>

\* One turn of `for (const [assetGroupName, assets] of Object.entries(groupedTmpAssets))`;
\* execSync throws when sentry-cli exits non-zero.
Upload ==
    /\ pc = "upload"
    /\ nextGroup <= Len(groupedTmpAssets)
    /\ LET assetGroupName == groupedTmpAssets[nextGroup].name
           assets         == groupedTmpAssets[nextGroup].assets
           isHermes       == IsHermes(assets)
           runtime        == RuntimeOf(runtimesByAssetGroup, assetGroupName)
       IN  \E status \in {0, 1} :
              /\ uploads' = Append(uploads,
                    [groupName        |-> assetGroupName,
                     release          |-> runtime,
                     debugIdReference |-> isHermes,
                     targets          |-> assets,
                     contents         |-> [i \in 1..Len(assets) |-> disk[assets[i]]],
                     project          |-> sentryProject,
                     command          |-> UploadCommand(runtime, isHermes, assets),
                     status           |-> status])
              /\ IF status = 0
                    THEN nextGroup' = nextGroup + 1 /\ UNCHANGED <<pc, error>>
                    ELSE Exit("UploadFailed") /\ UNCHANGED nextGroup
    /\ UNCHANGED <<envProject, envAuthToken, expoConfig, argvDir, sentryProject,
                   disk, dirs, manifestUpdates, files, groupedAssets, updates, nextUpdate,
                   runtimesByAssetGroup, tmpFiles, groupedTmpAssets, warnings,
                   successPrinted, fsMutated, stagedBy, stagedCount>>

\* console.log('Uploaded sourcemaps to Sentry successfully.')
Finish ==
    /\ pc = "upload"
    /\ nextGroup > Len(groupedTmpAssets)
    /\ successPrinted' = TRUE
    /\ pc' = "done"
    /\ UNCHANGED <<error, envProject, envAuthToken, expoConfig, argvDir, sentryProject,
                   disk, dirs, manifestUpdates, files, groupedAssets, updates, nextUpdate,
                   runtimesByAssetGroup, tmpFiles, groupedTmpAssets, nextGroup, uploads, warnings,
                   fsMutated, stagedBy, stagedCount>>

Next ==
    \/ ResolveProject
    \/ CheckAuthToken
    \/ CheckOutputDir
    \/ DeleteTmp
    \/ WalkSource
    \/ ReadManifest
    \/ Correlate
    \/ WalkTmp
    \/ Upload
    \/ Finish

Spec == Init /\ [][Next]_vars

(***************************************************************************)
(* Vocabulary of the properties.                                           *)
(***************************************************************************)
TmpPath == PathJoin(argvDir, TMP_DIR)

\* The entries of an object's groups that hold a path
GroupsHolding(groups, path) ==
    {i \in 1..Len(groups) : \E j \in 1..Len(groups[i].assets) : groups[i].assets[j] = path}

\* How often a path occurs in the groups
Occurrences(groups, path) ==
    {<<i, j>> \in UNION {{<<i, j>> : j \in 1..Len(groups[i].assets)} : i \in 1..Len(groups)} :
        groups[i].assets[j] = path}

Range(seq) == {seq[i] : i \in 1..Len(seq)}

\* The records whose platform is a substring of some source group key
MatchingRecords ==
    {i \in 1..Len(updates) :
        \E g \in 1..Len(groupedAssets) : includes(groupedAssets[g].name, updates[i].platform)}

\* The correlation loop has run to its end
CorrelationOver ==
    \/ pc \in {"upload", "done"}
    \/ pc = "correlate" /\ nextUpdate > Len(updates)
    \/ pc = "exited" /\ error \in {"NoTmpDirectory", "UploadFailed"}

\* The scratch paths a record's files were copied to
StagedPaths == DOMAIN stagedBy

\* (path, index) pairs of the upload invocations' targets
UploadTargets ==
    UNION {{<<k, i>> : i \in 1..Len(uploads[k].targets)} : k \in 1..Len(uploads)}

(***************************************************************************)
(* C1: every upload of a staged group passes as --release the              *)
(* runtimeVersion of the update record the group was staged from: the key  *)
(* the correlation loop stores the runtime under is the key the second     *)
(* grouping pass gives the group.                                          *)
(* The code stores the runtime under the bare new name and looks it up     *)
(* under the path of the staged file, so this fails.                       *)
(***************************************************************************)
C1_ReleaseIsRuntimeVersion ==
    /\ \A k \in 1..Len(uploads) :
          \A i \in 1..Len(uploads[k].targets) :
              uploads[k].targets[i] \in StagedPaths =>
                  \E r \in stagedBy[uploads[k].targets[i]] :
                      uploads[k].release = updates[r].runtimeVersion
    /\ \A g \in 1..Len(groupedTmpAssets) :
          (\E p \in Range(groupedTmpAssets[g].assets) : p \in StagedPaths)
              => groupedTmpAssets[g].name \in DOMAIN runtimesByAssetGroup

(***************************************************************************)
(* C2: with N records of which M match a source group key, the loop        *)
(* handles all N, stages M groups, prints N - M warnings, and unmatched    *)
(* records do not abort the run (also when M = 0).                         *)
(* With M = 0 nothing creates the scratch directory and the second walk    *)
(* throws, so this fails.                                                  *)
(***************************************************************************)
C2_UnmatchedRecordsDoNotAbort ==
    CorrelationOver =>
        /\ stagedCount = Cardinality(MatchingRecords)
        /\ warnings = Len(updates) - Cardinality(MatchingRecords)
        /\ ~(error = "NoTmpDirectory" /\ warnings > 0)

(***************************************************************************)
(* C3: groupAssets puts every path in exactly one group; the key of a      *)
(* path ending in .map is the path without .map and the key of any other   *)
(* path is the path; so X.map shares the group of X, and a bundle and a    *)
(* bytecode file of one directory are in two groups.                       *)
(***************************************************************************)
ExpectedKey(path) ==
    IF endsWith(path, ".map") THEN SubSeq(path, 1, Len(path) - 4) ELSE path

GroupedAsClaimed(input, groups) ==
    /\ \A i, j \in 1..Len(groups) : groups[i].name = groups[j].name => i = j
    /\ \A p \in Range(input) :
          /\ Cardinality(Occurrences(groups, p)) = 1
          /\ \A g \in GroupsHolding(groups, p) : groups[g].name = ExpectedKey(p)
    /\ \A g \in 1..Len(groups) : Range(groups[g].assets) \subseteq Range(input)
    /\ \A p, q \in Range(input) :
          /\ q = p \o ".map" => GroupsHolding(groups, p) = GroupsHolding(groups, q)
          /\ (endsWith(p, ".js") /\ endsWith(q, ".hbc"))
                => GroupsHolding(groups, p) \cap GroupsHolding(groups, q) = {}

C3_GroupingPartitions ==
    /\ GroupedAsClaimed(files, groupedAssets)
    /\ GroupedAsClaimed(tmpFiles, groupedTmpAssets)

\* A bundle with its sourcemap and a bytecode file of the same directory were grouped
C3_Witness ==
    /\ {"dist/ios/index.js", "dist/ios/index.js.map", "dist/ios/index.hbc"} \subseteq Range(files)
    /\ Len(groupedAssets) = 2
    /\ \E g \in 1..Len(groupedAssets) : Len(groupedAssets[g].assets) = 2

(***************************************************************************)
(* C4: files left in <root>/.tmp by an earlier run are in no group of the  *)
(* first or the second grouping pass and are never uploaded, whatever the  *)
(* outcome of the initial delete, a failed delete included.                *)
(* A delete that fails is only logged; what it left is walked twice, so    *)
(* this fails.                                                             *)
(***************************************************************************)
C4_NoStaleFileInAnyGroup ==
    /\ \A g \in 1..Len(groupedAssets) :
          \A p \in Range(groupedAssets[g].assets) : ~Under(p, TmpPath)
    /\ \A g \in 1..Len(groupedTmpAssets) :
          \A p \in Range(groupedTmpAssets[g].assets) : ~IsStaleContent(disk[p])
    /\ \A k \in 1..Len(uploads) :
          \A c \in Range(uploads[k].contents) : ~IsStaleContent(c)

(***************************************************************************)
(* C5: when no project can be resolved (not from SENTRY_PROJECT, not from  *)
(* the plugin configuration, a plugin configuration without a project      *)
(* included), or the auth token is unset, or the directory argument is     *)
(* absent, the run exits non-zero before any change to the file system and *)
(* before any upload.                                                      *)
(* A plugin configuration without a project sets sentryProject to          *)
(* undefined and the run goes on, so this fails.                           *)
(***************************************************************************)
ConfigurationIncomplete ==
    \/ /\ Falsy(envProject)
       /\ \/ ~HasPluginConfig(expoConfig)
          \/ Falsy(PluginProject(expoConfig))
    \/ Falsy(envAuthToken)
    \/ Falsy(argvDir)

C5_IncompleteConfigurationAborts ==
    ConfigurationIncomplete =>
        /\ ~fsMutated
        /\ uploads = <<>>
        /\ pc \in {"resolveProject", "checkAuthToken", "checkOutputDir", "exited"}
        /\ pc = "exited" => error \in {"NoPluginConfig", "NoAuthToken", "NoOutputDir"}

(***************************************************************************)
(* C6: an upload carries --debug-id-reference exactly when its group holds *)
(* a bytecode (.hbc) file; a source group whose file is a .hbc file is     *)
(* still a bytecode group under its staged name.                           *)
(* A file's content is named after the file it was first read from, so     *)
(* "holds a bytecode file" is told by the content, not by the staged name. *)
(***************************************************************************)
IsBytecodeContent(content) == endsWith(content, ".hbc")

C6_DebugIdIffBytecode ==
    /\ \A k \in 1..Len(uploads) :
          /\ uploads[k].debugIdReference
                <=> \E c \in Range(uploads[k].contents) : IsBytecodeContent(c)
          /\ uploads[k].debugIdReference
                <=> includes(uploads[k].command, " --debug-id-reference ")
    /\ pc = "done" =>
          \A p \in StagedPaths :
              IsBytecodeContent(disk[p]) =>
                  \E k \in 1..Len(uploads) :
                      p \in Range(uploads[k].targets) /\ uploads[k].debugIdReference

\* A run uploaded a staged bytecode group with the flag and a bundle group without it
C6_Witness ==
    /\ pc = "done"
    /\ \E k \in 1..Len(uploads) :
          /\ uploads[k].debugIdReference
          /\ \E t \in Range(uploads[k].targets) :
                t \in StagedPaths /\ disk[t] = "dist/android/index.hbc"
    /\ \E k \in 1..Len(uploads) :
          /\ ~uploads[k].debugIdReference
          /\ \E t \in Range(uploads[k].targets) :
                t \in StagedPaths /\ disk[t] = "dist/ios/index.js"

(***************************************************************************)
(* C7: two matched records with distinct ids are staged under distinct     *)
(* file names, also when they have the same platform: no staged file of    *)
(* one is overwritten by the other and the second grouping pass has one    *)
(* group per record.                                                       *)
(***************************************************************************)
C7_StagedNamesCollisionFree ==
    /\ \A p \in StagedPaths :
          \A i, j \in stagedBy[p] : updates[i].id = updates[j].id
    /\ \A g \in 1..Len(groupedTmpAssets) :
          \A p, q \in Range(groupedTmpAssets[g].assets) \cap StagedPaths :
              \A i \in stagedBy[p], j \in stagedBy[q] : updates[i].id = updates[j].id
    /\ pc \in {"upload", "done"} =>
          \A p \in StagedPaths : isAsset(PathBase(p)) => GroupsHolding(groupedTmpAssets, p) # {}

\* Two records of one platform were staged and regrouped into different groups
C7_Witness ==
    /\ pc \in {"upload", "done"}
    /\ \E i, j \in 1..Len(updates) :
          /\ updates[i].id # updates[j].id
          /\ updates[i].platform = updates[j].platform
          /\ \E p, q \in StagedPaths :
                /\ stagedBy[p] = {i}
                /\ stagedBy[q] = {j}
                /\ GroupsHolding(groupedTmpAssets, p) # {}
                /\ GroupsHolding(groupedTmpAssets, q) # {}
                /\ GroupsHolding(groupedTmpAssets, p) # GroupsHolding(groupedTmpAssets, q)

(***************************************************************************)
(* C8: when the runtime lookup for a staged group finds nothing the run    *)
(* fails and sentry-cli is not called: no upload is made with an undefined *)
(* release.                                                                *)
(* The code never tests the lookup, so this fails.                         *)
(***************************************************************************)
C8_NoUploadWithUndefinedRelease ==
    \A k \in 1..Len(uploads) :
        /\ uploads[k].groupName \in DOMAIN runtimesByAssetGroup
        /\ uploads[k].release # Undefined

(***************************************************************************)
(* C9: sentry-cli is called at most once per staged group, in order; once  *)
(* a call exits non-zero no further call is made in the run, the success   *)
(* message is not printed, nothing is retried and the calls already made   *)
(* stand.                                                                  *)
(***************************************************************************)
C9_FailFastUploads ==
    /\ Len(uploads) <= Len(groupedTmpAssets)
    /\ \A k \in 1..Len(uploads) : uploads[k].groupName = groupedTmpAssets[k].name
    /\ \A j, k \in 1..Len(uploads) : uploads[j].groupName = uploads[k].groupName => j = k
    /\ \A k \in 1..(Len(uploads) - 1) : uploads[k].status = 0
    /\ (uploads # <<>> /\ uploads[Len(uploads)].status # 0) =>
          /\ pc = "exited"
          /\ error = "UploadFailed"
          /\ ~successPrinted
    /\ successPrinted =>
          /\ Len(uploads) = Len(groupedTmpAssets)
          /\ \A k \in 1..Len(uploads) : uploads[k].status = 0

\* A call failed after an earlier one succeeded, with a group still to upload
C9_Witness ==
    /\ Len(uploads) >= 2
    /\ uploads[Len(uploads)].status # 0
    /\ Len(uploads) < Len(groupedTmpAssets)
    /\ pc = "exited"

(***************************************************************************)
(* C10: no upload is made before every record of the manifest has been     *)
(* correlated and staged; when no copy and no upload fails, every file     *)
(* copied to the scratch directory is found as an asset by the second walk *)
(* and is a target of exactly one upload.                                  *)
(***************************************************************************)
C10_StagedFilesUploadedOnce ==
    /\ uploads # <<>> => nextUpdate > Len(updates)
    /\ pc = "done" =>
          \A p \in StagedPaths :
              /\ isAsset(PathBase(p))
              /\ p \in Range(tmpFiles)
              /\ Cardinality({t \in UploadTargets : uploads[t[1]].targets[t[2]] = p}) = 1

\* A run staged two groups of two files and uploaded them
C10_Witness ==
    /\ pc = "done"
    /\ Cardinality(StagedPaths) >= 3
    /\ Len(uploads) >= 2
    /\ stagedCount = 2

====
